---- MODULE Spec2Model ----
(***************************************************************************)
(* Model of streamlit_app.py: the module-level credential check, the       *)
(* PropertyFindingAgent (find_properties, get_location_trends), the        *)
(* session-scoped agent created by create_property_agent, and the search   *)
(* handler of main().                                                      *)
(*                                                                         *)
(* Strings are sequences of tokens: a literal part of an f-string is one   *)
(* token, an interpolated value contributes its own tokens (a city is a    *)
(* sequence of characters).  Emoji of the literals are left out.           *)
(* Python values whose type matters (None, dict, list) are tagged records. *)
(***************************************************************************)
EXTENDS Integers, Sequences, FiniteSets, TLC

VARIABLES
    env,                \* os.environ after load_dotenv(): the two keys
    FIRECRAWL_API_KEY,  \* module global of the current script run
    OPENAI_API_KEY,     \* module global of the current script run
    property_agent,     \* st.session_state.property_agent (NoAgent: key absent)
    ui,                 \* widget values of the current script run
    pc,                 \* position of the current script run
    calls,              \* firecrawl.extract requests made in the current run
    response,           \* outcome of the extract call of find_properties
    property_results,   \* outcome of find_properties in the current run
    raw_response,       \* outcome of the extract call of get_location_trends
    location_trends,    \* outcome of get_location_trends in the current run
    display             \* what the current run has rendered, in order

vars == <<env, FIRECRAWL_API_KEY, OPENAI_API_KEY, property_agent, ui, pc,
          calls, response, property_results, raw_response, location_trends,
          display>>

-----------------------------------------------------------------------------
(* Bounds and input sets *)

MaxProps == 2       \* longest data.properties list the provider returns

ModelIds == {"o3-mini", "gpt-4o"}
PropertyCategories == {"Residential", "Commercial"}
PropertyTypes == {"Flat", "Individual House"}
MaxPrices == {0, 25}            \* st.number_input value, in tenths of a Crore
KeyStrings == {"", "key"}       \* "" stands for an unset or empty credential

Cities == { <<>>,
            <<"M", "u", "m", "b", "a", "i">>,
            <<"G", "O", "A">> }

-----------------------------------------------------------------------------
(* Python values *)

PyNone == [type |-> "NoneType"]
EmptyMap == [k \in {} |-> k]
PyDict(m) == [type |-> "dict", d |-> m]
PyList(s) == [type |-> "list", items |-> s]

\* bool(v)
Truthy(v) ==
    CASE v.type = "NoneType" -> FALSE
      [] v.type = "dict"     -> DOMAIN v.d # {}
      [] v.type = "list"     -> v.items # <<>>

\* m.get(k, default)
Get(m, k, default) == IF k \in DOMAIN m THEN m[k] ELSE default

UpperCase == <<"A","B","C","D","E","F","G","H","I","J","K","L","M",
               "N","O","P","Q","R","S","T","U","V","W","X","Y","Z">>
LowerCase == <<"a","b","c","d","e","f","g","h","i","j","k","l","m",
               "n","o","p","q","r","s","t","u","v","w","x","y","z">>

\* str.lower(), character by character
lower(s) ==
    [i \in 1..Len(s) |->
        IF \E j \in 1..Len(UpperCase) : UpperCase[j] = s[i]
        THEN LowerCase[CHOOSE j \in 1..Len(UpperCase) : UpperCase[j] = s[i]]
        ELSE s[i]]

\* str(float) of a price given in tenths: 25 -> "2.5", 0 -> "0.0"
FloatStr(tenths) == <<ToString(tenths \div 10), ".", ToString(tenths % 10)>>

-----------------------------------------------------------------------------
(* Schemas *)

\* PropertyData: field name -> key in the JSON schema (the alias if any)
PropertyData ==
    [building_name    |-> "Building_name",
     property_type    |-> "Property_type",
     location_address |-> "location_address",
     price            |-> "Price",
     description      |-> "Description"]

\* PropertiesResponse.model_json_schema(): keys of one item of "properties"
PropertiesResponse ==
    [properties |-> {PropertyData[f] : f \in DOMAIN PropertyData}]

\* LocationsResponse.model_json_schema(): keys of one item of "locations"
LocationsResponse ==
    [locations |-> {"location", "price_per_sqft", "percent_increase",
                    "rental_yield"}]

-----------------------------------------------------------------------------
(* What the extraction service can answer *)

\* raw records the provider may put in data.properties
RecordA ==
    [Building_name |-> "Skyline Towers", Property_type |-> "Flat",
     location_address |-> "Bandra West", Price |-> "2.1 Cr",
     Description |-> "2BHK sea view"]
RecordB ==
    [Building_name |-> "Palm Villa", Property_type |-> "Individual House",
     location_address |-> "Juhu", Price |-> "9 Cr",
     Description |-> "4BHK garden"]
\* keyed by the Python field names instead of the aliases
RecordFieldNames ==
    [building_name |-> "Skyline Towers", property_type |-> "Flat",
     location_address |-> "Bandra West", price |-> "2.1 Cr",
     description |-> "2BHK sea view"]
\* one key missing
RecordNoDescription ==
    [Building_name |-> "Skyline Towers", Property_type |-> "Flat",
     location_address |-> "Bandra West", Price |-> "2.1 Cr"]

RawRecords == {RecordA, RecordB, RecordFieldNames, RecordNoDescription}

RecordLists == UNION {[1..n -> RawRecords] : n \in 0..MaxProps}

\* the "data" payloads of a property extraction
PropertyPayloads ==
    {PyNone, PyDict(EmptyMap), PyDict([other |-> "x"])}
    \cup {PyDict([properties |-> PyNone])}
    \cup {PyDict([properties |-> PyList(l)]) : l \in RecordLists}
    \cup {PyDict([properties |-> PyList(l), other |-> "x"]) : l \in RecordLists}

\* FirecrawlResponse-shaped mappings, plus the falsy answers
Envelopes(payloads) ==
    {PyNone, PyDict(EmptyMap)}
    \cup {PyDict([success |-> s, status |-> "completed",
                  expiresAt |-> "2025-01-01T00:00:00Z"]) : s \in BOOLEAN}
    \cup {PyDict([success |-> s, data |-> p, status |-> "completed",
                  expiresAt |-> "2025-01-01T00:00:00Z"]) :
            s \in BOOLEAN, p \in payloads}

Returned(v) == [kind |-> "return", value |-> v]
Raised(e) == [kind |-> "raise", exc |-> e]
NotRun == [kind |-> "none"]

\* outcomes of firecrawl.extract for the property request
PropertyOutcomes ==
    {Raised("ConnectionError")}
    \cup {Returned(r) : r \in Envelopes(PropertyPayloads)}

LocationRecord ==
    [location |-> "Bandra", price_per_sqft |-> "45000",
     percent_increase |-> "7", rental_yield |-> "3"]

TrendPayloads ==
    {PyNone, PyDict(EmptyMap),
     PyDict([locations |-> PyList(<<>>)]),
     PyDict([locations |-> PyList(<<LocationRecord>>)])}

\* outcomes of firecrawl.extract for the trends request
TrendOutcomes ==
    {Raised("ConnectionError"), Returned(PyNone),
     Returned(PyDict([success |-> FALSE, status |-> "failed",
                      expiresAt |-> "2025-01-01T00:00:00Z"]))}
    \cup {Returned(PyDict([success |-> TRUE, data |-> p,
                           status |-> "completed",
                           expiresAt |-> "2025-01-01T00:00:00Z"])) :
            p \in TrendPayloads}

-----------------------------------------------------------------------------
(* PropertyFindingAgent *)

\* PropertyFindingAgent.__init__
PropertyFindingAgent(firecrawl_api_key, openai_api_key, model_id) ==
    [model_id |-> model_id, openai_api_key |-> openai_api_key,
     firecrawl_api_key |-> firecrawl_api_key]

NoAgent == [model_id |-> "", openai_api_key |-> "", firecrawl_api_key |-> ""]

Wildcard == "/*"

\* a plausible slip: the city is substituted without lowercasing
urls_not_lowered(city) ==
    << <<"https://", "www.squareyards.com", "/sale/property-for-sale-in-">>
           \o city \o <<Wildcard>>,
       <<"https://", "www.99acres.com", "/property-in-">>
           \o city \o <<"-ffid", Wildcard>>,
       <<"https://", "housing.com", "/in/buy/">>
           \o city \o <<"/">> \o city >>

\* the three listing URL patterns of find_properties
urls(city) ==
    LET formatted_location == lower(city) IN
    << <<"https://", "www.squareyards.com", "/sale/property-for-sale-in-">>
           \o formatted_location \o <<Wildcard>>,
       <<"https://", "www.99acres.com", "/property-in-">>
           \o formatted_location \o <<"-ffid", Wildcard>>,
       <<"https://", "housing.com", "/in/buy/">>
           \o formatted_location \o <<"/">> \o formatted_location >>

\* the arguments of the extract call of find_properties
properties_request(city, max_price, property_category, property_type) ==
    [urls   |-> urls(city),
     prompt |-> <<"Extract property listings for ">> \o city
                \o <<" where property type is ", property_type,
                     " and category is ", property_category,
                     ". Only include properties under ">>
                \o FloatStr(max_price)
                \o <<" Crores. Each property must include name, address, price, description, and type.">>,
     schema |-> PropertiesResponse]

\* the arguments of the extract call of get_location_trends
trends_request(city) ==
    [urls   |-> << <<"https://", "www.99acres.com",
                     "/property-rates-and-price-trends-in-">>
                   \o lower(city) \o <<"-prffid", Wildcard>> >>,
     prompt |-> <<"Extract price trends data for ALL major localities in the city.">>,
     schema |-> LocationsResponse]

Sentinel ==
    <<"No property data could be extracted. Try with a different city or parameters.">>

Header == "\n### "
Separator == "\n\n---\n"

\* the keys the f-string reads, in evaluation order
AccessedKeys ==
    <<"Building_name", "location_address", "Property_type", "Price",
      "Description">>

\* a plausible slip: the record is read by the Python field names
block_by_field_names(prop) ==
    IF \E f \in DOMAIN PropertyData : f \notin DOMAIN prop
    THEN Raised("KeyError")
    ELSE Returned(<<Header, prop["building_name"],
                    "\n- **Location**: ", prop["location_address"],
                    "\n- **Type**: ", prop["property_type"],
                    "\n- **Price**: ", prop["price"],
                    "\n- **Description**: ", prop["description"],
                    Separator>>)

\* the f-string of the loop body: one section block, or KeyError
block(prop) ==
    IF \E i \in 1..Len(AccessedKeys) : AccessedKeys[i] \notin DOMAIN prop
    THEN Raised("KeyError")
    ELSE Returned(<<Header, prop["Building_name"],
                    "\n- **Location**: ", prop["location_address"],
                    "\n- **Type**: ", prop["Property_type"],
                    "\n- **Price**: ", prop["Price"],
                    "\n- **Description**: ", prop["Description"],
                    Separator>>)

\* a plausible slip: each block is put in front of the text built so far
RECURSIVE format_loop_prepend(_, _)
format_loop_prepend(properties, formatted) ==
    IF properties = <<>> THEN Returned(formatted)
    ELSE LET b == block(Head(properties)) IN
         IF b.kind = "raise" THEN b
         ELSE format_loop_prepend(Tail(properties), b.value \o formatted)

\* for prop in properties: formatted += f"..."
RECURSIVE format_loop(_, _)
format_loop(properties, formatted) ==
    IF properties = <<>> THEN Returned(formatted)
    ELSE LET b == block(Head(properties)) IN
         IF b.kind = "raise" THEN b
         ELSE format_loop(Tail(properties), formatted \o b.value)

\* a plausible slip: only a falsy response yields the sentinel
interpret_falsy_only(resp) ==
    IF ~Truthy(resp) THEN Returned(Sentinel)
    ELSE IF "data" \notin DOMAIN resp.d THEN Raised("KeyError")
    ELSE LET data == resp.d["data"] IN
         IF data.type # "dict" THEN Raised("TypeError")
         ELSE IF "properties" \notin DOMAIN data.d THEN Raised("KeyError")
         ELSE LET properties == data.d["properties"] IN
              IF properties.type # "list" THEN Raised("TypeError")
              ELSE format_loop(properties.items, <<>>)

\* a plausible slip: a failure while formatting is turned into the sentinel
interpret_swallowing(resp) ==
    IF ~Truthy(resp) THEN Returned(Sentinel)
    ELSE LET data == Get(resp.d, "data", PyDict(EmptyMap)) IN
         IF data.type # "dict" THEN Returned(Sentinel)
         ELSE IF "properties" \notin DOMAIN data.d THEN Returned(Sentinel)
         ELSE LET properties == resp.d["data"].d["properties"] IN
              IF properties.type # "list" THEN Returned(Sentinel)
              ELSE LET r == format_loop(properties.items, <<>>) IN
                   IF r.kind = "raise" THEN Returned(Sentinel) ELSE r

\* find_properties after the extract call returned resp
interpret(resp) ==
    IF ~Truthy(resp) THEN Returned(Sentinel)
    ELSE LET data == Get(resp.d, "data", PyDict(EmptyMap)) IN
         \* "properties" not in None
         IF data.type # "dict" THEN Raised("TypeError")
         ELSE IF "properties" \notin DOMAIN data.d THEN Returned(Sentinel)
         ELSE LET properties == resp.d["data"].d["properties"] IN
              \* for prop in None
              IF properties.type # "list" THEN Raised("TypeError")
              ELSE format_loop(properties.items, <<>>)

Outcome(requests, r) ==
    IF r.kind = "raise"
    THEN [calls |-> requests, kind |-> "raise", exc |-> r.exc]
    ELSE [calls |-> requests, kind |-> "return", value |-> r.value]

\* a plausible slip: an answer without data is asked for a second time
find_properties_retrying(city, max_price, property_category, property_type, outcome) ==
    LET request == properties_request(city, max_price, property_category,
                                      property_type)
    IN  IF outcome.kind = "raise"
        THEN Outcome(<<request, request>>, outcome)
        ELSE LET r == interpret(outcome.value) IN
             IF r.kind = "return" /\ r.value = Sentinel
             THEN Outcome(<<request, request>>, r)
             ELSE Outcome(<<request>>, r)

\* PropertyFindingAgent.find_properties; outcome is what extract does
find_properties(city, max_price, property_category, property_type, outcome) ==
    LET request == properties_request(city, max_price, property_category,
                                      property_type)
    IN  IF outcome.kind = "raise"
        THEN Outcome(<<request>>, outcome)
        ELSE Outcome(<<request>>, interpret(outcome.value))

Placeholder == <<"Sample location trend analysis (mocked for now).">>

\* a plausible slip: the placeholder is returned only for an empty answer
get_location_trends_reading(city, outcome) ==
    IF outcome.kind = "raise"
    THEN Outcome(<<trends_request(city)>>, outcome)
    ELSE IF Truthy(outcome.value)
            /\ "data" \in DOMAIN outcome.value.d
            /\ Truthy(outcome.value.d["data"])
            /\ Truthy(outcome.value.d["data"].d["locations"])
         THEN Outcome(<<trends_request(city)>>,
                      Returned(<<"Trends for ", "Bandra">>))
         ELSE Outcome(<<trends_request(city)>>, Returned(Placeholder))

\* PropertyFindingAgent.get_location_trends; outcome is what extract does
get_location_trends(city, outcome) ==
    IF outcome.kind = "raise"
    THEN Outcome(<<trends_request(city)>>, outcome)
    ELSE Outcome(<<trends_request(city)>>, Returned(Placeholder))

-----------------------------------------------------------------------------
(* Module level and main() *)

Error(text) == [element |-> "error", text |-> text]
Success(text) == [element |-> "success", text |-> text]
Subheader(text) == [element |-> "subheader", text |-> text]
Markdown(text) == [element |-> "markdown", text |-> text]
Expander(text) == [element |-> "expander", text |-> text]

KeysMissing ==
    Error(<<"API keys are missing from the .env file. Please add them or input manually.">>)
AgentNotInitialized == Error(<<"Agent not initialized. Check API keys.">>)
GenericError(exc) == Error(<<"An error occurred: ", exc>>)

\* a plausible slip: the run stops only when both keys are missing
credential_check_both(e, typed) ==
    LET missing == e.FIRECRAWL_API_KEY = "" \/ e.OPENAI_API_KEY = ""
        keys    == IF missing THEN typed ELSE e
    IN  [FIRECRAWL_API_KEY |-> keys.FIRECRAWL_API_KEY,
         OPENAI_API_KEY    |-> keys.OPENAI_API_KEY,
         display |-> IF missing THEN <<KeysMissing>> ELSE <<>>,
         stop    |-> keys.FIRECRAWL_API_KEY = "" /\ keys.OPENAI_API_KEY = ""]

\* the module-level credential check: e from the environment, typed from the
\* two sidebar inputs
credential_check(e, typed) ==
    LET missing == e.FIRECRAWL_API_KEY = "" \/ e.OPENAI_API_KEY = ""
        keys    == IF missing THEN typed ELSE e
    IN  [FIRECRAWL_API_KEY |-> keys.FIRECRAWL_API_KEY,
         OPENAI_API_KEY    |-> keys.OPENAI_API_KEY,
         display |-> IF missing THEN <<KeysMissing>> ELSE <<>>,
         stop    |-> keys.FIRECRAWL_API_KEY = "" \/ keys.OPENAI_API_KEY = ""]

\* create_property_agent: the new value of st.session_state.property_agent
create_property_agent(session_agent, model_id, firecrawl_api_key, openai_api_key) ==
    IF session_agent = NoAgent
    THEN PropertyFindingAgent(firecrawl_api_key, openai_api_key, model_id)
    ELSE session_agent

\* a plausible slip: the trends step is not inside the same try block
after_find_unguarded(r) == "trends"

\* where the try block of main() continues after find_properties
after_find(r) == IF r.kind = "return" THEN "trends" ELSE "done"

\* what the try block of main() renders for the outcome of find_properties
find_display(r) ==
    IF r.kind = "return"
    THEN <<Success(<<"Property search completed!">>),
           Subheader(<<"Property Recommendations">>),
           Markdown(r.value)>>
    ELSE <<GenericError(r.exc)>>

\* what the try block of main() renders for the outcome of get_location_trends
trends_display(r) ==
    IF r.kind = "return" THEN <<Expander(r.value)>>
    ELSE <<GenericError(r.exc)>>

Result(r) ==
    IF r.kind = "raise" THEN Raised(r.exc) ELSE Returned(r.value)

DefaultUi ==
    [model_id |-> "o3-mini", city |-> <<>>, max_price |-> 0,
     property_category |-> "Residential", property_type |-> "Flat",
     button |-> FALSE]

Init ==
    /\ env \in [FIRECRAWL_API_KEY : KeyStrings, OPENAI_API_KEY : KeyStrings]
    /\ FIRECRAWL_API_KEY = env.FIRECRAWL_API_KEY
    /\ OPENAI_API_KEY = env.OPENAI_API_KEY
    /\ property_agent = NoAgent
    /\ ui = DefaultUi
    /\ pc = "idle"
    /\ calls = <<>>
    /\ response = NotRun
    /\ property_results = NotRun
    /\ raw_response = NotRun
    /\ location_trends = NotRun
    /\ display = <<>>

\* a script run starts (first load or a widget interaction) and executes the
\* module level up to st.stop()
ScriptRun ==
    /\ pc \in {"idle", "stopped", "done"}
    /\ \E typed \in [FIRECRAWL_API_KEY : KeyStrings,
                     OPENAI_API_KEY : KeyStrings] :
         LET c == credential_check(env, typed) IN
         /\ FIRECRAWL_API_KEY' = c.FIRECRAWL_API_KEY
         /\ OPENAI_API_KEY' = c.OPENAI_API_KEY
         /\ display' = c.display
         /\ pc' = IF c.stop THEN "stopped" ELSE "main"
    /\ calls' = <<>>
    /\ response' = NotRun
    /\ property_results' = NotRun
    /\ raw_response' = NotRun
    /\ location_trends' = NotRun
    /\ UNCHANGED <<env, property_agent, ui>>

\* main() up to the search button
Main ==
    /\ pc = "main"
    /\ \E m \in ModelIds, c \in Cities, p \in MaxPrices,
          pcat \in PropertyCategories, pt \in PropertyTypes,
          b \in BOOLEAN :
         /\ ui' = [model_id |-> m, city |-> c, max_price |-> p,
                   property_category |-> pcat, property_type |-> pt,
                   button |-> b]
         /\ property_agent' =
                create_property_agent(property_agent, m, FIRECRAWL_API_KEY,
                                      OPENAI_API_KEY)
         /\ IF b
            THEN IF property_agent' = NoAgent
                 THEN /\ display' = Append(display, AgentNotInitialized)
                      /\ pc' = "done"
                 ELSE /\ display' = display
                      /\ pc' = "find"
            ELSE /\ display' = display
                 /\ pc' = "done"
    /\ UNCHANGED <<env, FIRECRAWL_API_KEY, OPENAI_API_KEY, calls, response,
                   property_results, raw_response, location_trends>>

\* the first spinner of the try block: find_properties and its rendering, or
\* the except handler
SearchProperties ==
    /\ pc = "find"
    /\ \E outcome \in PropertyOutcomes :
         LET r == find_properties(ui.city, ui.max_price, ui.property_category,
                                  ui.property_type, outcome)
         IN  /\ response' = outcome
             /\ calls' = calls \o r.calls
             /\ property_results' = Result(r)
             /\ display' = display \o find_display(r)
             /\ pc' = after_find(r)
    /\ UNCHANGED <<env, FIRECRAWL_API_KEY, OPENAI_API_KEY, property_agent, ui,
                   raw_response, location_trends>>

\* the second spinner of the try block: get_location_trends and its
\* rendering, or the except handler
SearchTrends ==
    /\ pc = "trends"
    /\ \E outcome \in TrendOutcomes :
         LET r == get_location_trends(ui.city, outcome)
         IN  /\ raw_response' = outcome
             /\ calls' = calls \o r.calls
             /\ location_trends' = Result(r)
             /\ display' = display \o trends_display(r)
             /\ pc' = "done"
    /\ UNCHANGED <<env, FIRECRAWL_API_KEY, OPENAI_API_KEY, property_agent, ui,
                   response, property_results>>

Next ==
    \/ ScriptRun
    \/ Main
    \/ SearchProperties
    \/ SearchTrends

Spec == Init /\ [][Next]_vars

-----------------------------------------------------------------------------
(* Vocabulary of the properties *)

IsDict(v) == v.type = "dict"

\* resp is a non-empty mapping whose "data" is a mapping
HasDataMapping(resp) ==
    /\ IsDict(resp)
    /\ "data" \in DOMAIN resp.d
    /\ IsDict(resp.d["data"])

\* resp carries a list under data.properties
HasPropertiesList(resp) ==
    /\ HasDataMapping(resp)
    /\ "properties" \in DOMAIN resp.d["data"].d
    /\ resp.d["data"].d["properties"].type = "list"

PropertiesOf(resp) == resp.d["data"].d["properties"].items

HasKeys(prop, keys) == \A k \in keys : k \in DOMAIN prop

AliasKeys == {AccessedKeys[i] : i \in 1..Len(AccessedKeys)}

Occurs(text, token) == \E k \in 1..Len(text) : text[k] = token

Positions(text, token) == {k \in 1..Len(text) : text[k] = token}

\* part occurs in url as a contiguous run
Contains(url, part) ==
    \E k \in 0..(Len(url) - Len(part)) :
        \A j \in 1..Len(part) : url[k + j] = part[j]

EndsWith(url, part) ==
    /\ Len(url) >= Len(part)
    /\ \A j \in 1..Len(part) : url[Len(url) - Len(part) + j] = part[j]

IsPropertiesRequest(req) == req.schema = PropertiesResponse
IsTrendsRequest(req) == req.schema = LocationsResponse

FindActed == property_results.kind # "none"
TrendsActed == location_trends.kind # "none"

GenericErrors ==
    {k \in 1..Len(display) :
        /\ display[k].element = "error"
        /\ display[k].text[1] = "An error occurred: "}

-----------------------------------------------------------------------------
(* Properties *)

\* C1: whenever the extraction answer is falsy, or its "data" mapping has no
\* "properties" key, find_properties returns exactly the sentinel string and
\* raises nothing, whatever success and the other data keys are.
C1_SentinelWithoutProperties ==
    (/\ response.kind = "return"
     /\ \/ ~Truthy(response.value)
        \/ /\ HasDataMapping(response.value)
           /\ "properties" \notin DOMAIN response.value.d["data"].d)
    => property_results = Returned(Sentinel)

C1_Witness ==
    /\ response.kind = "return"
    /\ HasDataMapping(response.value)
    /\ response.value.d["success"] = FALSE
    /\ DOMAIN response.value.d["data"].d = {"other"}
    /\ property_results = Returned(Sentinel)

\* C2: for a list of N records that all carry the accessed keys, the returned
\* text consists of exactly N blocks, the i-th one holding the i-th record's
\* building name, location, type, price and description; nothing is dropped,
\* duplicated, re-ordered or filtered by price.
C2_OneBlockPerRecordInOrder ==
    (/\ response.kind = "return"
     /\ HasPropertiesList(response.value)
     /\ \A i \in 1..Len(PropertiesOf(response.value)) :
            HasKeys(PropertiesOf(response.value)[i], AliasKeys))
    => LET items == PropertiesOf(response.value)
           N == Len(items)
       IN  /\ property_results.kind = "return"
           /\ Cardinality(Positions(property_results.value, Header)) = N
           /\ Cardinality(Positions(property_results.value, Separator)) = N
           /\ Len(property_results.value) = 11 * N
           /\ \A i \in 1..N :
                LET b == 11 * (i - 1)
                    text == property_results.value
                IN  /\ text[b + 1] = Header
                    /\ text[b + 2] = items[i]["Building_name"]
                    /\ text[b + 4] = items[i]["location_address"]
                    /\ text[b + 6] = items[i]["Property_type"]
                    /\ text[b + 8] = items[i]["Price"]
                    /\ text[b + 10] = items[i]["Description"]
                    /\ text[b + 11] = Separator

C2_Witness ==
    /\ response.kind = "return"
    /\ HasPropertiesList(response.value)
    /\ PropertiesOf(response.value) = <<RecordB, RecordA>>
    /\ ui.max_price = 25
    /\ property_results.kind = "return"
    /\ Len(property_results.value) = 22

\* C3 as stated: one record keyed by the field names building_name,
\* property_type, location_address, price, description is formatted to one
\* block with the five values and a trailing separator.
C3_FieldNameRecordFormats ==
    (/\ response.kind = "return"
     /\ HasPropertiesList(response.value)
     /\ Len(PropertiesOf(response.value)) = 1
     /\ DOMAIN PropertiesOf(response.value)[1] = DOMAIN PropertyData)
    => /\ property_results.kind = "return"
       /\ property_results.value # Sentinel
       /\ \A f \in DOMAIN PropertyData :
            Occurs(property_results.value, PropertiesOf(response.value)[1][f])
       /\ EndsWith(property_results.value, <<Separator>>)

\* C3 amended: one record keyed by the keys of the JSON schema
\* (Building_name, Property_type, location_address, Price, Description) is
\* formatted to one block with the five values and a trailing separator.
C3_SchemaKeyRecordFormats ==
    (/\ response.kind = "return"
     /\ HasPropertiesList(response.value)
     /\ Len(PropertiesOf(response.value)) = 1
     /\ DOMAIN PropertiesOf(response.value)[1] = PropertiesResponse.properties)
    => /\ property_results.kind = "return"
       /\ property_results.value # Sentinel
       /\ Cardinality(Positions(property_results.value, Header)) = 1
       /\ \A k \in PropertiesResponse.properties :
            Occurs(property_results.value, PropertiesOf(response.value)[1][k])
       /\ EndsWith(property_results.value, <<Separator>>)

C3_Witness ==
    /\ response.kind = "return"
    /\ HasPropertiesList(response.value)
    /\ PropertiesOf(response.value) = <<RecordA>>
    /\ ui.city = <<"M", "u", "m", "b", "a", "i">>
    /\ property_results.kind = "return"
    /\ Occurs(property_results.value, "Skyline Towers")


\* C4 as stated: the extract call of find_properties gets exactly three URL
\* patterns, each containing the lowercased city, each for another listings
\* source, and all three ending in the wildcard suffix.
C4_ThreeWildcardUrls ==
    FindActed =>
        LET u == calls[1].urls IN
        /\ Len(u) = 3
        /\ \A i \in 1..3 : Contains(u[i], lower(ui.city))
        /\ \A i, j \in 1..3 : i # j => u[i][2] # u[j][2]
        /\ \A i \in 1..3 : EndsWith(u[i], <<Wildcard>>)

\* C4 amended: exactly three URL patterns, each containing the lowercased
\* city, each for another listings source; the first two end in the wildcard
\* suffix and the third ends in "/" followed by the lowercased city, with no
\* wildcard appended.
C4_ThreeUrlsTwoWildcards ==
    FindActed =>
        LET u == calls[1].urls IN
        /\ IsPropertiesRequest(calls[1])
        /\ Len(u) = 3
        /\ \A i \in 1..3 : Contains(u[i], lower(ui.city))
        /\ \A i, j \in 1..3 : i # j => u[i][2] # u[j][2]
        /\ \A i \in 1..2 : EndsWith(u[i], <<Wildcard>>)
        /\ EndsWith(u[3], <<"/">> \o lower(ui.city))
        /\ Len(u[3]) = 4 + 2 * Len(ui.city)

C4_Witness ==
    /\ FindActed
    /\ ui.city = <<"G", "O", "A">>
    /\ Contains(calls[1].urls[3], <<"g", "o", "a", "/", "g", "o", "a">>)

\* C5 as stated: whenever a search runs, the session's agent was built with
\* the model identifier that is currently selected.
C5_SearchUsesSelectedModel ==
    FindActed => property_agent.model_id = ui.model_id

\* C6: get_location_trends issues one extraction request and, whatever the
\* city and whatever the answer holds, returns the fixed placeholder.
C6_TrendsAlwaysPlaceholder ==
    (TrendsActed /\ raw_response.kind = "return")
    => /\ location_trends = Returned(Placeholder)
       /\ Cardinality({k \in 1..Len(calls) : IsTrendsRequest(calls[k])}) = 1

C6_Witness ==
    /\ TrendsActed
    /\ raw_response.kind = "return"
    /\ HasDataMapping(raw_response.value)
    /\ "locations" \in DOMAIN raw_response.value.d["data"].d
    /\ raw_response.value.d["data"].d["locations"].items = <<LocationRecord>>
    /\ ui.city = <<"M", "u", "m", "b", "a", "i">>
    /\ location_trends = Returned(Placeholder)

\* C7: in a script run where either credential is empty nothing runs: no
\* extraction call, no find_properties, no get_location_trends, and no agent
\* is ever built from an empty credential.
C7_NothingRunsWithoutCredentials ==
    /\ (FIRECRAWL_API_KEY = "" \/ OPENAI_API_KEY = "")
       => /\ pc \in {"idle", "stopped"}
          /\ calls = <<>>
          /\ ~FindActed
          /\ ~TrendsActed
    /\ property_agent # NoAgent
       => /\ property_agent.firecrawl_api_key # ""
          /\ property_agent.openai_api_key # ""

C7_Witness ==
    /\ pc = "stopped"
    /\ FIRECRAWL_API_KEY = "key"
    /\ OPENAI_API_KEY = ""
    /\ property_agent # NoAgent
    /\ display = <<KeysMissing>>

\* C8: an invocation of find_properties makes at most one extraction call and
\* so does an invocation of get_location_trends, on the sentinel path and on
\* the exception path too.
C8_OneExtractionPerInvocation ==
    /\ Cardinality({k \in 1..Len(calls) : IsPropertiesRequest(calls[k])})
       = IF FindActed THEN 1 ELSE 0
    /\ Cardinality({k \in 1..Len(calls) : IsTrendsRequest(calls[k])})
       = IF TrendsActed THEN 1 ELSE 0

C8_Witness ==
    /\ property_results = Returned(Sentinel)
    /\ response.kind = "return"
    /\ ~Truthy(response.value)
    /\ location_trends = Raised("ConnectionError")
    /\ Len(calls) = 2

\* C9: a failure inside find_properties leaves it as the same exception: when
\* the extraction call raises, and when a record of data.properties lacks an
\* accessed key, nothing is returned, neither the sentinel nor the blocks of
\* the earlier records.
C9_FailuresPropagate ==
    /\ response.kind = "raise" => property_results = Raised(response.exc)
    /\ (/\ response.kind = "return"
        /\ HasPropertiesList(response.value)
        /\ \E i \in 1..Len(PropertiesOf(response.value)) :
              ~HasKeys(PropertiesOf(response.value)[i], AliasKeys))
       => property_results = Raised("KeyError")

C9_Witness ==
    /\ response.kind = "return"
    /\ HasPropertiesList(response.value)
    /\ PropertiesOf(response.value) = <<RecordA, RecordNoDescription>>
    /\ property_results = Raised("KeyError")

\* C10: the trends request is made only after find_properties has returned;
\* when find_properties raises, get_location_trends is not called in that
\* search, one generic error is rendered and neither results nor trends are.
C10_TrendsOnlyAfterFindReturned ==
    /\ (\E k \in 1..Len(calls) : IsTrendsRequest(calls[k]))
       => /\ property_results.kind = "return"
          /\ IsPropertiesRequest(calls[1])
          /\ \A k \in 1..Len(calls) : IsTrendsRequest(calls[k]) => k > 1
    /\ pc = "trends" => property_results.kind = "return"
    /\ property_results.kind = "raise"
       => /\ pc = "done"
          /\ ~TrendsActed
          /\ Cardinality(GenericErrors) = 1
          /\ \A k \in 1..Len(display) :
                display[k].element \notin {"success", "subheader",
                                           "markdown", "expander"}

C10_Witness ==
    /\ property_results = Raised("KeyError")
    /\ pc = "done"
    /\ display = <<KeysMissing, GenericError("KeyError")>>

====
